---- MODULE Spec2Model ----
(***************************************************************************)
(* Munkres' assignment algorithm (2013-09-24-minimal-assignment.cpp):      *)
(* the seven step functions, their helpers, the dispatcher hungarian()     *)
(* and the two exported entry points hungarian_cc / hungariansafe_cc.      *)
(*                                                                         *)
(* Matrices are functions [0..N-1 -> [0..N-1 -> Int]] (m[r][c] is          *)
(* m.at(r, c)); vectors are functions on 0..N-1.  Costs are integers: the  *)
(* model covers integer-valued doubles, on which +, - and == are exact.    *)
(***************************************************************************)
EXTENDS Integers, Sequences, FiniteSets, TLC

\* Largest dimension of a matrix handed to an entry point.
MaxN == 3
\* Entries of a matrix with fewer than MaxN rows range over -MaxVal .. MaxVal.
MaxVal == 2
\* Entries of a matrix with MaxN rows range over 0 .. TopVal.
TopVal == 1
\* Constants added to a row or a column range over -MaxShift .. MaxShift.
MaxShift == 1
\* The history counters stop counting at MaxCount, a number above every
\* count a solve within the bounds or of an example reaches.
MaxCount == 5

VARIABLES
    pc,          \* position: "R", "error", "switch", "step_four", "step_five", "returned", "ub"
    rrows,       \* cost.rows() of the Rcpp::NumericMatrix
    rcols,       \* cost.cols() of the Rcpp::NumericMatrix
    rmem,        \* its memory, column-major: a sequence of rrows * rcols values
    N,           \* hungarian(): const unsigned int N
    input_cost,  \* hungarian(): the caller's matrix (const reference)
    cost,        \* hungarian(): the working copy
    indM,        \* hungarian(): mark matrix, 0 none / 1 starred / 2 primed
    rcov,        \* hungarian(): row covers
    ccov,        \* hungarian(): column covers
    path,        \* hungarian(): path buffer, 2N vertices <<row, col>>
    step,        \* hungarian(): the current step, 0 before the solver is entered
    rpath_0,     \* hungarian(): row of the path's first vertex
    cpath_0,     \* hungarian(): column of the path's first vertex
    row,         \* local of step_four / step_five
    col,         \* local of step_four / step_five
    path_count,  \* local of step_five
    oob,         \* an element outside an object's bounds has been accessed
    n_one,       \* history: calls of step_one in this solve
    n_two,       \* history: calls of step_two in this solve
    n_five,      \* history: calls of step_five in this solve
    n_six,       \* history: calls of step_six since the last call of step_three
    stars_two    \* history: the number of cells step_two starred

vars == <<pc, rrows, rcols, rmem, N, input_cost, cost, indM, rcov, ccov, path,
          step, rpath_0, cpath_0, row, col, path_count, oob,
          n_one, n_two, n_five, n_six, stars_two>>

rvars == <<rrows, rcols, rmem>>

\* The history variables: they record what the dispatcher has called and
\* nothing reads them.
hvars == <<n_one, n_two, n_five, n_six, stars_two>>

\* A history counter after one more call.
Counted(n) == IF n < MaxCount THEN n + 1 ELSE n

Idx(n) == 0 .. (n - 1)

\* The entries of an input matrix with n rows.
CostVals(n) == IF n < MaxN THEN (0 - MaxVal) .. MaxVal ELSE 0 .. TopVal

\* What an element created without an initial value can hold, as far as the
\* code tells values apart: the covers are only compared with 0 before
\* step_two fills them, so 1 stands for every nonzero value.
Garbage == {0, 1}

SetMin(S) == CHOOSE m \in S : \A x \in S : m <= x

SetMax(S) == CHOOSE m \in S : \A x \in S : x <= m

\* The element of a one-element set.  Only({F(v) : v \in {e}}) is F(e) with e
\* evaluated once.
Only(S) == CHOOSE x \in S : TRUE

Zeros(n) == [r \in Idx(n) |-> [c \in Idx(n) |-> 0]]

ZeroVec(n) == [i \in Idx(n) |-> 0]

\* The path buffer as allocated: no vertex written yet.
FreshPath(n) == [p \in Idx(2 * n) |-> <<-1, -1>>]

\* The starred cells of a mark matrix.
StarCells(marks, n) == {rc \in Idx(n) \X Idx(n) : marks[rc[1]][rc[2]] = 1}

(***************************************************************************)
(* The solver's state as one record, so that each step is a function from  *)
(* state to state.                                                         *)
(***************************************************************************)
State ==
    [pc |-> pc, N |-> N, input_cost |-> input_cost, cost |-> cost, indM |-> indM,
     rcov |-> rcov, ccov |-> ccov, path |-> path, step |-> step,
     rpath_0 |-> rpath_0, cpath_0 |-> cpath_0, row |-> row, col |-> col,
     path_count |-> path_count, oob |-> oob]

Install(t) ==
    /\ pc' = t.pc
    /\ N' = t.N
    /\ input_cost' = t.input_cost
    /\ cost' = t.cost
    /\ indM' = t.indM
    /\ rcov' = t.rcov
    /\ ccov' = t.ccov
    /\ path' = t.path
    /\ step' = t.step
    /\ rpath_0' = t.rpath_0
    /\ cpath_0' = t.cpath_0
    /\ row' = t.row
    /\ col' = t.col
    /\ path_count' = t.path_count
    /\ oob' = t.oob

\* The state before hungarian() is entered: none of its objects exists.
NotEntered ==
    [pc |-> "R", N |-> 0, input_cost |-> <<>>, cost |-> <<>>, indM |-> <<>>,
     rcov |-> <<>>, ccov |-> <<>>, path |-> <<>>, step |-> 0,
     rpath_0 |-> 0, cpath_0 |-> 0, row |-> -1, col |-> -1,
     path_count |-> 0, oob |-> FALSE]

\* hungarian(), lines 467-478: the declarations before the loop.  rcov, ccov
\* and path are created without an initial value; the zeros held here for
\* the covers are a placeholder that nothing reads (StepTwo draws their
\* contents when the code first reads them).
hungarian_entry(m, n, bad) ==
    [pc |-> "switch", N |-> n, input_cost |-> m, cost |-> m, indM |-> Zeros(n),
     rcov |-> ZeroVec(n), ccov |-> ZeroVec(n), path |-> FreshPath(n), step |-> 1,
     rpath_0 |-> 0, cpath_0 |-> 0, row |-> -1, col |-> -1,
     path_count |-> 0, oob |-> bad]

(***************************************************************************)
(* Step 1                                                                  *)
(***************************************************************************)
RowMax(m, r, n) == SetMax({m[r][c] : c \in Idx(n)})

RowMin(m, r, n) == SetMin({m[r][c] : c \in Idx(n)})

step_one_inplace(s) ==
    LET red == [r \in Idx(s.N) |->
                   [c \in Idx(s.N) |-> s.cost[r][c] - RowMin(s.cost, r, s.N)]]
    IN  [s EXCEPT !.cost = red, !.input_cost = red, !.step = 2]

step_one_matrix_min(s) ==
    LET least == IF s.N = 0 THEN 0
                 ELSE SetMin({s.cost[r][c] : r \in Idx(s.N), c \in Idx(s.N)})
    IN  [s EXCEPT !.cost = [r \in Idx(s.N) |->
                               [c \in Idx(s.N) |-> s.cost[r][c] - least]],
                  !.step = 2]

step_one(s) ==
    [s EXCEPT !.cost = [r \in Idx(s.N) |->
                           [c \in Idx(s.N) |-> s.cost[r][c] - RowMin(s.cost, r, s.N)]],
              !.step = 2]

(***************************************************************************)
(* Step 2                                                                  *)
(***************************************************************************)
\* The body of the loop over r of step_two for row r, on the marks and covers
\* a that the rows before it left: the first column that passes the test is
\* starred and the row is left (break).
step_two_row_any(m, n, r, a) ==
    LET hit == {c \in Idx(n) : a.rcov[r] = 0 /\ a.ccov[c] = 0}
    IN  IF hit = {} THEN a
        ELSE [indM |-> [a.indM EXCEPT ![r][SetMin(hit)] = 1],
              rcov |-> [a.rcov EXCEPT ![r] = 1],
              ccov |-> [a.ccov EXCEPT ![SetMin(hit)] = 1]]

step_two_row_open_col(m, n, r, a) ==
    LET hit == {c \in Idx(n) : m[r][c] = 0 /\ a.rcov[r] = 0 /\ a.ccov[c] = 0}
    IN  IF hit = {} THEN a
        ELSE [indM |-> [a.indM EXCEPT ![r][SetMin(hit)] = 1],
              rcov |-> [a.rcov EXCEPT ![r] = 1],
              ccov |-> a.ccov]

step_two_row(m, n, r, a) ==
    LET hit == {c \in Idx(n) : m[r][c] = 0 /\ a.rcov[r] = 0 /\ a.ccov[c] = 0}
    IN  IF hit = {} THEN a
        ELSE [indM |-> [a.indM EXCEPT ![r][SetMin(hit)] = 1],
              rcov |-> [a.rcov EXCEPT ![r] = 1],
              ccov |-> [a.ccov EXCEPT ![SetMin(hit)] = 1]]

\* The loop over r of step_two from row r on.
RECURSIVE step_two_rows(_, _, _, _)
step_two_rows(m, n, r, a) ==
    IF r >= n THEN a
    ELSE Only({step_two_rows(m, n, r + 1, b) : b \in {step_two_row(m, n, r, a)}})

step_two(s) ==
    [s EXCEPT !.indM = step_two_rows(s.cost, s.N, 0,
                           [indM |-> s.indM, rcov |-> s.rcov, ccov |-> s.ccov]).indM,
              !.rcov = ZeroVec(s.N),
              !.ccov = ZeroVec(s.N),
              !.step = 3]

(***************************************************************************)
(* Step 3                                                                  *)
(***************************************************************************)
step_three_strict(s) ==
    LET cc == [c \in Idx(s.N) |->
                  IF \E r \in Idx(s.N) : s.indM[r][c] = 1 THEN 1 ELSE s.ccov[c]]
        colcount == Cardinality({c \in Idx(s.N) : cc[c] = 1})
    IN  [s EXCEPT !.ccov = cc,
                  !.step = IF colcount = s.N /\ colcount > 0 THEN 7 ELSE 4]

step_three_above(s) ==
    LET cc == [c \in Idx(s.N) |->
                  IF \E r \in Idx(s.N) : s.indM[r][c] = 1 THEN 1 ELSE s.ccov[c]]
        colcount == Cardinality({c \in Idx(s.N) : cc[c] = 1})
    IN  [s EXCEPT !.ccov = cc, !.step = IF colcount > s.N THEN 7 ELSE 4]

step_three(s) ==
    LET cc == [c \in Idx(s.N) |->
                  IF \E r \in Idx(s.N) : s.indM[r][c] = 1 THEN 1 ELSE s.ccov[c]]
        colcount == Cardinality({c \in Idx(s.N) : cc[c] = 1})
    IN  [s EXCEPT !.ccov = cc, !.step = IF colcount = s.N THEN 7 ELSE 4]

(***************************************************************************)
(* Step 4                                                                  *)
(***************************************************************************)
\* find_noncovered_zero from cell k = r * n + c of the row-major scan, for
\* n >= 1: the first cell that passes the test, or row = col = -1.
RECURSIVE scan_noncovered_zero(_, _, _, _, _)
scan_noncovered_zero(m, rc, cc, n, k) ==
    IF k >= n * n THEN [row |-> -1, col |-> -1]
    ELSE LET r == k \div n
             c == k % n
         IN  IF m[r][c] = 0 /\ rc[r] = 0 /\ cc[c] = 0
             THEN [row |-> r, col |-> c]
             ELSE scan_noncovered_zero(m, rc, cc, n, k + 1)

find_noncovered_zero_last(m, rc, cc, n) ==
    LET K == {k \in 0 .. (n * n - 1) :
                 m[k \div n][k % n] = 0 /\ rc[k \div n] = 0 /\ cc[k % n] = 0}
    IN  IF n = 0 THEN [row |-> -1, col |-> -1, bad |-> TRUE]
        ELSE IF K = {} THEN [row |-> -1, col |-> -1, bad |-> FALSE]
        ELSE [row |-> SetMax(K) \div n, col |-> SetMax(K) % n, bad |-> FALSE]

\* find_noncovered_zero reads cell (0, 0) before it tests r or c against N:
\* with N = 0 that read is outside every object (bad).
find_noncovered_zero(m, rc, cc, n) ==
    IF n = 0 THEN [row |-> -1, col |-> -1, bad |-> TRUE]
    ELSE [row |-> scan_noncovered_zero(m, rc, cc, n, 0).row,
          col |-> scan_noncovered_zero(m, rc, cc, n, 0).col,
          bad |-> FALSE]

star_in_row(r, marks, n) == \E c \in Idx(n) : marks[r][c] = 1

\* No break in the loop: the last starred column of the row, or -1.
find_star_in_row(r, marks, n) ==
    LET S == {c \in Idx(n) : marks[r][c] = 1}
    IN  IF S = {} THEN -1 ELSE SetMax(S)

\* The declarations of step_four before its loop.
step_four_begin(s) == [s EXCEPT !.pc = "step_four", !.row = -1, !.col = -1]

step_four_found_no_prime(s, z) ==
    IF z.bad THEN [s EXCEPT !.pc = "ub", !.oob = TRUE]
    ELSE IF z.row = -1
    THEN [s EXCEPT !.pc = "switch", !.step = 6, !.row = -1, !.col = -1]
    ELSE IF star_in_row(z.row, s.indM, s.N)
         THEN LET sc == find_star_in_row(z.row, s.indM, s.N)
              IN  [s EXCEPT !.rcov = [s.rcov EXCEPT ![z.row] = 1],
                            !.ccov = [s.ccov EXCEPT ![sc] = 0],
                            !.row = z.row, !.col = sc]
         ELSE [s EXCEPT !.indM = [s.indM EXCEPT ![z.row][z.col] = 2],
                        !.pc = "switch", !.step = 5,
                        !.rpath_0 = z.row, !.cpath_0 = z.col,
                        !.row = -1, !.col = -1]

step_four_found_keep_col(s, z) ==
    IF z.bad THEN [s EXCEPT !.pc = "ub", !.oob = TRUE]
    ELSE IF z.row = -1
    THEN [s EXCEPT !.pc = "switch", !.step = 6, !.row = -1, !.col = -1]
    ELSE LET marks == [s.indM EXCEPT ![z.row][z.col] = 2]
         IN  IF star_in_row(z.row, marks, s.N)
             THEN [s EXCEPT !.indM = marks,
                            !.rcov = [s.rcov EXCEPT ![z.row] = 1],
                            !.row = z.row,
                            !.col = find_star_in_row(z.row, marks, s.N)]
             ELSE [s EXCEPT !.indM = marks, !.pc = "switch", !.step = 5,
                            !.rpath_0 = z.row, !.cpath_0 = z.col,
                            !.row = -1, !.col = -1]

\* One pass of the while loop of step_four after its call of
\* find_noncovered_zero, which returned z; the function returns (and its
\* locals end) when the pass sets done.
step_four_found(s, z) ==
    IF z.bad THEN [s EXCEPT !.pc = "ub", !.oob = TRUE]
    ELSE IF z.row = -1
    THEN [s EXCEPT !.pc = "switch", !.step = 6, !.row = -1, !.col = -1]
    ELSE LET marks == [s.indM EXCEPT ![z.row][z.col] = 2]
         IN  IF star_in_row(z.row, marks, s.N)
             THEN LET sc == find_star_in_row(z.row, marks, s.N)
                  IN  [s EXCEPT !.indM = marks,
                                !.rcov = [s.rcov EXCEPT ![z.row] = 1],
                                !.ccov = [s.ccov EXCEPT ![sc] = 0],
                                !.row = z.row, !.col = sc]
             ELSE [s EXCEPT !.indM = marks, !.pc = "switch", !.step = 5,
                            !.rpath_0 = z.row, !.cpath_0 = z.col,
                            !.row = -1, !.col = -1]

\* One pass of the while loop of step_four.
step_four_pass(s) ==
    Only({step_four_found(s, z) :
             z \in {find_noncovered_zero(s.cost, s.rcov, s.ccov, s.N)}})

(***************************************************************************)
(* Step 5                                                                  *)
(***************************************************************************)
\* No break in the loop: the last starred row of the column, or -1.
find_star_in_col_marked(c, marks, n) ==
    LET S == {r \in Idx(n) : marks[r][c] # 0}
    IN  IF S = {} THEN -1 ELSE SetMax(S)

find_star_in_col(c, marks, n) ==
    LET S == {r \in Idx(n) : marks[r][c] = 1}
    IN  IF S = {} THEN -1 ELSE SetMax(S)

\* No break and no reset of col: the last primed column of the row, or the
\* value col had before the call.
find_prime_in_row(r, oldcol, marks, n) ==
    LET S == {c \in Idx(n) : marks[r][c] = 2}
    IN  IF S = {} THEN oldcol ELSE SetMax(S)

\* augment_path from vertex p on, one vertex after the other.
RECURSIVE augment_path_from(_, _, _, _)
augment_path_from(p, count, marks, pth) ==
    IF p >= count THEN marks
    ELSE LET r == pth[p][1]
             c == pth[p][2]
         IN  augment_path_from(p + 1, count,
                               [marks EXCEPT ![r][c] = IF marks[r][c] = 1 THEN 0 ELSE 1],
                               pth)

augment_path_none(count, marks, pth) == marks

augment_path_star_all(count, marks, pth) ==
    [r \in DOMAIN marks |-> [c \in DOMAIN marks[r] |->
        IF \E p \in 0 .. (count - 1) : pth[p] = <<r, c>> THEN 1 ELSE marks[r][c]]]

augment_path(count, marks, pth) == augment_path_from(0, count, marks, pth)

erase_primes_none(marks, n) == marks

erase_primes_first_row(marks, n) ==
    [r \in Idx(n) |-> [c \in Idx(n) |->
        IF r = 0 /\ marks[r][c] = 2 THEN 0 ELSE marks[r][c]]]

erase_primes(marks, n) ==
    [r \in Idx(n) |-> [c \in Idx(n) |-> IF marks[r][c] = 2 THEN 0 ELSE marks[r][c]]]

\* The declarations of step_five and the two writes before its loop.
step_five_begin(s) ==
    IF s.N = 0 THEN [s EXCEPT !.pc = "ub", !.oob = TRUE]
    ELSE [s EXCEPT !.pc = "step_five", !.row = -1, !.col = -1, !.path_count = 1,
                   !.path = [s.path EXCEPT ![0] = <<s.rpath_0, s.cpath_0>>]]

\* A vertex whose row and column are indices of the N x N matrices.
InMatrix(v, n) == v[1] \in Idx(n) /\ v[2] \in Idx(n)

step_five_pass_keep_covers(s) ==
    LET last == s.path[s.path_count - 1]
    IN  IF ~InMatrix(last, s.N) THEN [s EXCEPT !.pc = "ub", !.oob = TRUE]
        ELSE LET r == find_star_in_col(last[2], s.indM, s.N)
             IN  IF r > -1
                 THEN IF s.path_count + 2 > 2 * s.N
                      THEN [s EXCEPT !.pc = "ub", !.oob = TRUE]
                      ELSE LET c == find_prime_in_row(r, s.col, s.indM, s.N)
                           IN  [s EXCEPT !.row = r, !.col = c,
                                         !.path_count = s.path_count + 2,
                                         !.path = [s.path EXCEPT
                                                     ![s.path_count] = <<r, last[2]>>,
                                                     ![s.path_count + 1] = <<r, c>>]]
                 ELSE [s EXCEPT !.indM = erase_primes(
                                            augment_path(s.path_count, s.indM, s.path),
                                            s.N),
                                !.pc = "switch", !.step = 3,
                                !.row = -1, !.col = -1, !.path_count = 0]

\* One pass of the while loop of step_five.  When no starred zero is found
\* in the column of the last vertex the loop ends and the rest of step_five
\* runs.  A path vertex outside the matrices, or one written beyond the 2N
\* rows of the buffer, is an access outside an object.
step_five_pass(s) ==
    LET last == s.path[s.path_count - 1]
    IN  IF ~InMatrix(last, s.N) THEN [s EXCEPT !.pc = "ub", !.oob = TRUE]
        ELSE LET r == find_star_in_col(last[2], s.indM, s.N)
             IN  IF r > -1
                 THEN IF s.path_count + 2 > 2 * s.N
                      THEN [s EXCEPT !.pc = "ub", !.oob = TRUE]
                      ELSE LET c == find_prime_in_row(r, s.col, s.indM, s.N)
                           IN  [s EXCEPT !.row = r, !.col = c,
                                         !.path_count = s.path_count + 2,
                                         !.path = [s.path EXCEPT
                                                     ![s.path_count] = <<r, last[2]>>,
                                                     ![s.path_count + 1] = <<r, c>>]]
                 ELSE [s EXCEPT !.indM = erase_primes(
                                            augment_path(s.path_count, s.indM, s.path),
                                            s.N),
                                !.rcov = ZeroVec(s.N),
                                !.ccov = ZeroVec(s.N),
                                !.pc = "switch", !.step = 3,
                                !.row = -1, !.col = -1, !.path_count = 0]

(***************************************************************************)
(* Step 6                                                                  *)
(***************************************************************************)
\* The initial value of minval in step_six, a number above every entry the
\* model reaches.
DBL_MAX == 1000000

find_smallest_all(minval, m, rc, cc, n) ==
    SetMin({minval} \cup {m[r][c] : r \in Idx(n), c \in Idx(n)})

find_smallest(minval, m, rc, cc, n) ==
    SetMin({minval} \cup {m[r][c] : r \in {x \in Idx(n) : rc[x] = 0},
                                    c \in {y \in Idx(n) : cc[y] = 0}})

step_six_stuck(s) == [s EXCEPT !.step = 4]

step_six_cells(s) ==
    LET minval == find_smallest(DBL_MAX, s.cost, s.rcov, s.ccov, s.N)
    IN  [s EXCEPT !.cost = [r \in Idx(s.N) |-> [c \in Idx(s.N) |->
                               s.cost[r][c]
                               - (IF s.rcov[r] = 0 /\ s.ccov[c] = 0 THEN minval ELSE 0)]],
                  !.step = 4]

step_six_to_three(s) ==
    LET minval == find_smallest(DBL_MAX, s.cost, s.rcov, s.ccov, s.N)
    IN  [s EXCEPT !.cost = [r \in Idx(s.N) |-> [c \in Idx(s.N) |->
                               s.cost[r][c]
                               + (IF s.rcov[r] = 1 THEN minval ELSE 0)
                               - (IF s.ccov[c] = 0 THEN minval ELSE 0)]],
                  !.step = 3]

step_six_else_if(s) ==
    LET minval == find_smallest(DBL_MAX, s.cost, s.rcov, s.ccov, s.N)
    IN  [s EXCEPT !.cost = [r \in Idx(s.N) |-> [c \in Idx(s.N) |->
                               IF s.rcov[r] = 1 THEN s.cost[r][c] + minval
                               ELSE IF s.ccov[c] = 0 THEN s.cost[r][c] - minval
                               ELSE s.cost[r][c]]],
                  !.step = 4]

step_six_no_add(s) ==
    LET minval == find_smallest(DBL_MAX, s.cost, s.rcov, s.ccov, s.N)
    IN  [s EXCEPT !.cost = [r \in Idx(s.N) |-> [c \in Idx(s.N) |->
                               s.cost[r][c] - (IF s.ccov[c] = 0 THEN minval ELSE 0)]],
                  !.step = 4]

step_six(s) ==
    LET minval == find_smallest(DBL_MAX, s.cost, s.rcov, s.ccov, s.N)
    IN  [s EXCEPT !.cost = [r \in Idx(s.N) |-> [c \in Idx(s.N) |->
                               s.cost[r][c]
                               + (IF s.rcov[r] = 1 THEN minval ELSE 0)
                               - (IF s.ccov[c] = 0 THEN minval ELSE 0)]],
                  !.step = 4]

\* case 7 of the switch: done = true, the loop ends and indM is returned.
step_seven(s) == [s EXCEPT !.pc = "returned"]

(***************************************************************************)
(* hungarian() as a function of its input and of what rcov and ccov hold   *)
(* when step_two first reads them.                                         *)
(***************************************************************************)
\* One turn of the dispatcher's loop, or one pass of an inner loop.
dispatch(s) ==
    CASE s.pc = "step_four" -> step_four_pass(s)
      [] s.pc = "step_five" -> step_five_pass(s)
      [] s.pc = "switch" /\ s.step = 1 -> step_one(s)
      [] s.pc = "switch" /\ s.step = 2 -> step_two(s)
      [] s.pc = "switch" /\ s.step = 3 -> step_three(s)
      [] s.pc = "switch" /\ s.step = 4 -> step_four_begin(s)
      [] s.pc = "switch" /\ s.step = 5 -> step_five_begin(s)
      [] s.pc = "switch" /\ s.step = 6 -> step_six(s)
      [] s.pc = "switch" /\ s.step = 7 -> step_seven(s)

RECURSIVE run(_)
run(s) ==
    IF s.pc \in {"returned", "ub"} THEN s ELSE Only({run(t) : t \in {dispatch(s)}})

hungarian(m, n, rc, cc) ==
    run([hungarian_entry(m, n, FALSE) EXCEPT !.rcov = rc, !.ccov = cc]).indM

\* The mark matrices hungarian() can return for m, over every content of
\* rcov and ccov at the time step_two reads them.
hungarian_results(m, n) ==
    {run(t).indM :
        t \in {step_two([s EXCEPT !.rcov = rc, !.ccov = cc]) :
                  s \in {step_one(hungarian_entry(m, n, FALSE))},
                  rc \in [Idx(n) -> Garbage], cc \in [Idx(n) -> Garbage]}}

(***************************************************************************)
(* The exported entry points                                               *)
(***************************************************************************)
\* arma::mat(cost.begin(), n, n, false, true): element (r, c) is the value
\* at offset c * n + r of the R matrix's memory.  An offset beyond that
\* memory is outside the object; g holds what is found there.
arma_view(mem, n, g) ==
    [r \in Idx(n) |-> [c \in Idx(n) |->
        IF c * n + r + 1 <= Len(mem) THEN mem[c * n + r + 1]
        ELSE g[c * n + r + 1 - Len(mem)]]]

\* The number of elements an n x n view reads beyond the R matrix's memory.
Overrun(mem, n) == IF n * n > Len(mem) THEN n * n - Len(mem) ELSE 0

hungarian_cc ==
    /\ pc = "R"
    /\ \E g \in [1 .. Overrun(rmem, rrows) -> CostVals(rrows)] :
          \E t \in {hungarian_entry(arma_view(rmem, rrows, g), rrows,
                                      Overrun(rmem, rrows) > 0)} :
             Install(t)
    /\ n_one' = 0 /\ n_two' = 0 /\ n_five' = 0 /\ n_six' = 0 /\ stars_two' = 0
    /\ UNCHANGED rvars

hungariansafe_cc_unchecked == hungarian_cc

hungariansafe_cc ==
    /\ pc = "R"
    /\ \E t \in {IF rrows # rcols
                  THEN [State EXCEPT !.pc = "error"]
                  ELSE hungarian_entry(arma_view(rmem, rrows, <<>>), rrows, FALSE)} :
          Install(t)
    /\ n_one' = 0 /\ n_two' = 0 /\ n_five' = 0 /\ n_six' = 0 /\ stars_two' = 0
    /\ UNCHANGED rvars

(***************************************************************************)
(* The dispatcher: one action per case of the switch, and one per pass of  *)
(* the loops of step_four and step_five.                                   *)
(***************************************************************************)
StepOne ==
    /\ pc = "switch" /\ step = 1
    /\ \E t \in {step_one(s) : s \in {State}} : Install(t)
    /\ n_one' = Counted(n_one) /\ UNCHANGED <<n_two, n_five, n_six, stars_two>>
    /\ UNCHANGED rvars

\* step_two is the first code to read rcov and ccov, which were created
\* without an initial value: their contents are drawn here.
StepTwo ==
    /\ pc = "switch" /\ step = 2
    /\ \E rc \in [Idx(N) -> Garbage], cc \in [Idx(N) -> Garbage] :
          \E t \in {step_two(s) : s \in {[State EXCEPT !.rcov = rc, !.ccov = cc]}} :
             Install(t)
    /\ stars_two' = Cardinality(StarCells(indM', N'))
    /\ n_two' = Counted(n_two) /\ UNCHANGED <<n_one, n_five, n_six>>
    /\ UNCHANGED rvars

StepThree ==
    /\ pc = "switch" /\ step = 3
    /\ \E t \in {step_three(s) : s \in {State}} : Install(t)
    /\ n_six' = 0 /\ UNCHANGED <<n_one, n_two, n_five, stars_two>>
    /\ UNCHANGED rvars

StepFour ==
    /\ pc = "switch" /\ step = 4
    /\ \E t \in {step_four_begin(s) : s \in {State}} : Install(t)
    /\ UNCHANGED hvars
    /\ UNCHANGED rvars

StepFourLoop ==
    /\ pc = "step_four"
    /\ \E t \in {step_four_pass(s) : s \in {State}} : Install(t)
    /\ UNCHANGED hvars
    /\ UNCHANGED rvars

StepFive ==
    /\ pc = "switch" /\ step = 5
    /\ \E t \in {step_five_begin(s) : s \in {State}} : Install(t)
    /\ n_five' = Counted(n_five) /\ UNCHANGED <<n_one, n_two, n_six, stars_two>>
    /\ UNCHANGED rvars

StepFiveLoop ==
    /\ pc = "step_five"
    /\ \E t \in {step_five_pass(s) : s \in {State}} : Install(t)
    /\ UNCHANGED hvars
    /\ UNCHANGED rvars

StepSix ==
    /\ pc = "switch" /\ step = 6
    /\ \E t \in {step_six(s) : s \in {State}} : Install(t)
    /\ n_six' = Counted(n_six) /\ UNCHANGED <<n_one, n_two, n_five, stars_two>>
    /\ UNCHANGED rvars

StepSeven ==
    /\ pc = "switch" /\ step = 7
    /\ \E t \in {step_seven(s) : s \in {State}} : Install(t)
    /\ UNCHANGED hvars
    /\ UNCHANGED rvars

Next ==
    \/ hungarian_cc
    \/ hungariansafe_cc
    \/ StepOne
    \/ StepTwo
    \/ StepThree
    \/ StepFour
    \/ StepFourLoop
    \/ StepFive
    \/ StepFiveLoop
    \/ StepSix
    \/ StepSeven

\* Before an entry point is called the solver's variables hold NotEntered.
SolverNotEntered ==
    /\ pc = NotEntered.pc
    /\ N = NotEntered.N
    /\ input_cost = NotEntered.input_cost
    /\ cost = NotEntered.cost
    /\ indM = NotEntered.indM
    /\ rcov = NotEntered.rcov
    /\ ccov = NotEntered.ccov
    /\ path = NotEntered.path
    /\ step = NotEntered.step
    /\ rpath_0 = NotEntered.rpath_0
    /\ cpath_0 = NotEntered.cpath_0
    /\ row = NotEntered.row
    /\ col = NotEntered.col
    /\ path_count = NotEntered.path_count
    /\ oob = NotEntered.oob
    /\ n_one = 0
    /\ n_two = 0
    /\ n_five = 0
    /\ n_six = 0
    /\ stars_two = 0

\* An entry point is about to be called with a square matrix.
Init ==
    /\ rrows \in 0 .. MaxN
    /\ rcols = rrows
    /\ rmem \in [1 .. rrows * rcols -> CostVals(rrows)]
    /\ SolverNotEntered

\* An entry point is about to be called with a matrix of any shape.
InitAnyShape ==
    /\ rrows \in 0 .. MaxN
    /\ rcols \in 0 .. MaxN
    /\ rmem \in [1 .. rrows * rcols -> 0 .. TopVal]
    /\ SolverNotEntered

(***************************************************************************)
(* The worked examples of the post                                         *)
(***************************************************************************)
\* R's matrix(vals, nrow, ncol, byrow = TRUE): vals fills the matrix row by
\* row, and the matrix is stored column by column.
r_matrix_byrow(vals, nrow, ncol) ==
    [k \in 1 .. nrow * ncol |-> vals[((k - 1) % nrow) * ncol + ((k - 1) \div nrow) + 1]]

\* cost <- matrix(c(1, 2, 2, 4), nrow = 2, ncol = 2, byrow = TRUE)
ExampleCost == r_matrix_byrow(<<1, 2, 2, 4>>, 2, 2)

\* revenues <- matrix(seq(1, 4)) %*% seq(1, 4): entry (i, j) is i * j, stored
\* column by column.
ExampleRevenues == [k \in 1 .. 16 |-> (((k - 1) % 4) + 1) * (((k - 1) \div 4) + 1)]

\* The big value the revenues are subtracted from.
BigValue == 100

\* cost <- 100 - revenues
ExampleRevenueCost == [k \in 1 .. 16 |-> BigValue - ExampleRevenues[k]]

\* An entry point is about to be called with the cost matrix of one of the
\* two examples.
InitExamples ==
    /\ rmem \in {ExampleCost, ExampleRevenueCost}
    /\ rrows = (IF rmem = ExampleCost THEN 2 ELSE 4)
    /\ rcols = rrows
    /\ SolverNotEntered

Spec == Init /\ [][Next]_vars

SpecExamples == InitExamples /\ [][Next]_vars

\* The square matrices within the bounds and the two examples.
SpecAll == (Init \/ InitExamples) /\ [][Next]_vars

SpecAnyShape == InitAnyShape /\ [][Next]_vars

\* The same program under the fairness its sequential execution gives: a
\* statement that can run does run.
FairSpec == Spec /\ WF_vars(Next)

(***************************************************************************)
(* Notions the properties are stated with                                  *)
(***************************************************************************)
InSolver == pc \in {"switch", "step_four", "step_five", "returned", "ub"}

\* Exactly one 1 in each row and in each column, every other entry 0.
IsAssignment(marks, n) ==
    /\ \A r \in Idx(n) : Cardinality({c \in Idx(n) : marks[r][c] = 1}) = 1
    /\ \A c \in Idx(n) : Cardinality({r \in Idx(n) : marks[r][c] = 1}) = 1
    /\ \A r \in Idx(n) : \A c \in Idx(n) : marks[r][c] \in {0, 1}

\* The sum of m over the cells k, k+1, ... (row-major) that marks holds 1 in.
RECURSIVE SelectedFrom(_, _, _, _)
SelectedFrom(m, marks, n, k) ==
    IF k >= n * n THEN 0
    ELSE (IF marks[k \div n][k % n] = 1 THEN m[k \div n][k % n] ELSE 0)
         + SelectedFrom(m, marks, n, k + 1)

SelectedCost(m, marks, n) == SelectedFrom(m, marks, n, 0)

Perms(n) == {f \in [Idx(n) -> Idx(n)] : \A a \in Idx(n) : \A b \in Idx(n) : a # b => f[a] # f[b]}

RECURSIVE PermFrom(_, _, _, _)
PermFrom(m, f, n, r) == IF r >= n THEN 0 ELSE m[r][f[r]] + PermFrom(m, f, n, r + 1)

PermCost(m, f, n) == PermFrom(m, f, n, 0)

\* The permutations of least total cost on m.
Optimal(m, n) == {f \in Perms(n) : \A g \in Perms(n) : PermCost(m, f, n) <= PermCost(m, g, n)}

RowReduced(m, n) == [r \in Idx(n) |-> [c \in Idx(n) |-> m[r][c] - RowMin(m, r, n)]]

Shifts == ((0 - MaxShift) .. MaxShift) \ {0}

ShiftRow(m, n, r0, k) ==
    [r \in Idx(n) |-> [c \in Idx(n) |-> IF r = r0 THEN m[r][c] + k ELSE m[r][c]]]

ShiftCol(m, n, c0, k) ==
    [r \in Idx(n) |-> [c \in Idx(n) |-> IF c = c0 THEN m[r][c] + k ELSE m[r][c]]]

CoverVecs(n) == [Idx(n) -> Garbage]

(***************************************************************************)
(* C1                                                                      *)
(***************************************************************************)
\* C1: the matrix hungarian() returns for a square input holds exactly one 1
\* in each row and in each column and 0 everywhere else (no 2 is left).
C1_PermutationResult ==
    pc = "returned" => IsAssignment(indM, N)

\* A 3 x 3 solve has returned after building a path of at least three
\* vertices.
C1_Witness ==
    /\ pc = "returned"
    /\ N = MaxN
    /\ path[2] # <<-1, -1>>

(***************************************************************************)
(* C2                                                                      *)
(***************************************************************************)
\* C2: the input's cost summed over the cells the result selects is at most
\* the input's cost of every permutation of rows to columns.
C2_OptimalResult ==
    pc = "returned" =>
        \A f \in Perms(N) : SelectedCost(input_cost, indM, N) <= PermCost(input_cost, f, N)

\* A solve has returned on an input with a negative entry and with a
\* permutation that is not optimal, after step_six changed the matrix.
C2_Witness ==
    /\ pc = "returned"
    /\ N >= 2
    /\ \E r \in Idx(N) : \E c \in Idx(N) : input_cost[r][c] < 0
    /\ Optimal(input_cost, N) # Perms(N)
    /\ cost # RowReduced(input_cost, N)

(***************************************************************************)
(* C3                                                                      *)
(***************************************************************************)
\* C3: every run on a square matrix reaches step 7 and returns; the passes
\* of the loops of step_four and step_five are steps of the run, so none of
\* them repeats forever either.
C3_Terminates == <>(pc = "returned")

\* A run has returned after step_six ran (the working matrix is no longer
\* the row-reduced input) and after step_five followed a starred zero.
C3_Witness ==
    /\ pc = "returned"
    /\ N = MaxN
    /\ cost # RowReduced(input_cost, N)
    /\ path[1] # <<-1, -1>>

(***************************************************************************)
(* C4                                                                      *)
(***************************************************************************)
\* C4: hungariansafe_cc called with a matrix whose row count differs from
\* its column count ends in the error; in the error state hungarian() has
\* not been entered (no step has run, no mark matrix exists), and nothing
\* runs after the error.
C4_NonSquareRejected ==
    /\ [][(rrows # rcols /\ hungariansafe_cc) => pc' = "error"]_vars
    /\ [](pc = "error" => rrows # rcols /\ step = 0 /\ N = 0 /\ indM = <<>> /\ cost = <<>>)
    /\ [][pc # "error"]_vars

\* hungariansafe_cc has been called with a 3 x 2 matrix.
C4_Witness ==
    /\ pc = "error"
    /\ rrows = 3
    /\ rcols = 2

(***************************************************************************)
(* C5                                                                      *)
(***************************************************************************)
\* C5: the solver is never entered with a matrix that is not square:
\* whichever entry point is called with such a matrix, the call is still
\* pending or has ended in the error.
C5_NeverEnteredNonSquare ==
    rrows # rcols => pc \in {"R", "error"}

(***************************************************************************)
(* C6                                                                      *)
(***************************************************************************)
\* C6: in every state of a run of hungarian(), and after it returns,
\* input_cost is the matrix the caller passed (the view of the R matrix's
\* memory, which no action changes).
C6_InputUnchanged ==
    InSolver => input_cost = arma_view(rmem, N, <<>>)

\* A solve has returned after step_one and step_six both changed the
\* working matrix.
C6_Witness ==
    /\ pc = "returned"
    /\ cost # input_cost
    /\ cost # RowReduced(input_cost, N)

(***************************************************************************)
(* C7                                                                      *)
(***************************************************************************)
\* C7: the mark matrix a run returns is the one hungarian() returns on the
\* same input for every content of rcov and ccov at allocation.
C7_Deterministic ==
    pc = "returned" => hungarian_results(input_cost, N) = {indM}

(***************************************************************************)
(* C8                                                                      *)
(***************************************************************************)
\* C8: the mark matrix a run returns on C is the one hungarian() returns on
\* C with k added to every entry of row r, for every r and k.
C8_RowShiftInvariant ==
    pc = "returned" =>
        \A r \in Idx(N) : \A k \in Shifts :
            hungarian_results(ShiftRow(input_cost, N, r, k), N) = {indM}

\* The part of C8 that does not depend on what the covers hold at
\* allocation: with the same contents of rcov and ccov in both runs, C and
\* the row-shifted C give the same mark matrix.
RowShiftSameCovers ==
    (pc = "switch" /\ step = 1) =>
        \A r \in Idx(N) : \A k \in Shifts :
            \A rc \in CoverVecs(N) : \A cc \in CoverVecs(N) :
                hungarian(ShiftRow(input_cost, N, r, k), N, rc, cc)
                    = hungarian(input_cost, N, rc, cc)

(***************************************************************************)
(* C9                                                                      *)
(***************************************************************************)
\* C9 as claimed, for runs whose covers hold 0 at allocation (so that a
\* difference does not come from their contents): if a run returns what
\* hungarian() returns on C with zeroed covers, then hungarian() with zeroed
\* covers returns the same on C with k added to every entry of column c.
C9_ColShiftInvariant ==
    (pc = "returned" /\ indM = hungarian(input_cost, N, ZeroVec(N), ZeroVec(N))) =>
        \A c \in Idx(N) : \A k \in Shifts :
            hungarian(ShiftCol(input_cost, N, c, k), N, ZeroVec(N), ZeroVec(N)) = indM

\* C9 amended: every mark matrix hungarian() can return on the
\* column-shifted C is an assignment with the same total cost on C as the
\* one returned on C, and is that same mark matrix when C has exactly one
\* optimal assignment.
C9_ColShiftSameOptimum ==
    pc = "returned" =>
        \A c \in Idx(N) : \A k \in Shifts :
            \A M \in hungarian_results(ShiftCol(input_cost, N, c, k), N) :
                /\ IsAssignment(M, N)
                /\ SelectedCost(input_cost, M, N) = SelectedCost(input_cost, indM, N)
                /\ Cardinality(Optimal(input_cost, N)) = 1 => M = indM

\* A 3 x 3 solve has returned what zeroed covers give, and adding a constant
\* to one column changes the mark matrix that zeroed covers give.
C9_Witness ==
    /\ pc = "returned"
    /\ N = MaxN
    /\ indM = hungarian(input_cost, N, ZeroVec(N), ZeroVec(N))
    /\ \E c \in Idx(N) : \E k \in Shifts :
          hungarian(ShiftCol(input_cost, N, c, k), N, ZeroVec(N), ZeroVec(N)) # indM

(***************************************************************************)
(* C10                                                                     *)
(***************************************************************************)
\* C10: with N = 0 the run goes 1 -> 2 -> 3 -> 7 and returns an empty mark
\* matrix; it is never inside step_four or step_five (so
\* find_noncovered_zero is not called) and no element is accessed (with
\* N = 0 every index is outside the object).
C10_EmptyInput ==
    /\ [](InSolver /\ N = 0 =>
            /\ pc \in {"switch", "returned"}
            /\ step \in {1, 2, 3, 7}
            /\ ~oob
            /\ indM = <<>>)
    /\ [][InSolver /\ N = 0 =>
            /\ step = 1 => step' = 2
            /\ step = 2 => step' = 3
            /\ step = 3 => step' = 7
            /\ step = 7 => (step' = 7 /\ pc' = "returned")]_vars

\* hungarian() has returned for an empty matrix.
C10_Witness ==
    /\ pc = "returned"
    /\ N = 0
    /\ step = 7

(***************************************************************************)
(* C11                                                                     *)
(***************************************************************************)
\* C11: on the 2 x 2 cost matrix [[1,2],[2,4]] hungarian() returns the mark
\* matrix [[0,1],[1,0]], whose total cost on the input is 4.
C11_ExampleCostResult ==
    (pc = "returned" /\ rmem = ExampleCost) =>
        /\ indM = [r \in Idx(2) |-> [c \in Idx(2) |-> IF r # c THEN 1 ELSE 0]]
        /\ SelectedCost(input_cost, indM, N) = 4

\* The solve of the 2 x 2 example has returned after one call of step_six
\* and one of step_five.
C11_Witness ==
    /\ pc = "returned"
    /\ rmem = ExampleCost
    /\ input_cost = [r \in Idx(2) |-> [c \in Idx(2) |-> (r + 1) * (c + 1)]]
    /\ cost # RowReduced(input_cost, N)
    /\ n_five >= 1

(***************************************************************************)
(* C12                                                                     *)
(***************************************************************************)
\* C12: on the 4 x 4 cost matrix 100 - i * j hungarian() returns the identity
\* mark matrix, whose total on the revenues i * j is 30.
C12_ExampleRevenueResult ==
    (pc = "returned" /\ rmem = ExampleRevenueCost) =>
        /\ indM = [r \in Idx(4) |-> [c \in Idx(4) |-> IF r = c THEN 1 ELSE 0]]
        /\ SelectedCost(arma_view(ExampleRevenues, 4, <<>>), indM, N) = 30

\* The solve of the 4 x 4 example has returned after calls of step_six and
\* step_five.
C12_Witness ==
    /\ pc = "returned"
    /\ rmem = ExampleRevenueCost
    /\ input_cost[3][3] = BigValue - 16
    /\ input_cost[0][3] = BigValue - 4
    /\ cost # RowReduced(input_cost, N)
    /\ n_five >= 1

(***************************************************************************)
(* C13                                                                     *)
(***************************************************************************)
\* C13: each time the switch on step is evaluated after step 2, and at the
\* return, every row and every column of the mark matrix holds at most one
\* starred cell.
C13_OneStarPerLine ==
    (pc \in {"switch", "returned"} /\ step >= 3) =>
        /\ \A r \in Idx(N) : Cardinality({c \in Idx(N) : indM[r][c] = 1}) <= 1
        /\ \A c \in Idx(N) : Cardinality({r \in Idx(N) : indM[r][c] = 1}) <= 1

\* The switch is evaluated at step 3 after a call of step_five whose path
\* went through a starred cell, with two or more cells starred.
C13_Witness ==
    /\ pc = "switch"
    /\ step = 3
    /\ n_five >= 1
    /\ path[1] # <<-1, -1>>
    /\ Cardinality(StarCells(indM, N)) >= 2

(***************************************************************************)
(* C14                                                                     *)
(***************************************************************************)
\* The transitions of the phase table, with 0 for "hungarian() not entered".
PhaseTable ==
    {<<0, 1>>, <<1, 2>>, <<2, 3>>, <<3, 4>>, <<3, 7>>, <<4, 5>>, <<4, 6>>,
     <<5, 3>>, <<6, 4>>}

\* C14: step starts at 1 and changes only along the phase table; 3 -> 7
\* exactly when all N columns are covered after step_three; 7 is terminal;
\* step_one and step_two are each called at most once, and exactly once in
\* a solve that returns.
C14_PhaseTable ==
    /\ [](step \in 0 .. 7 /\ (InSolver => step \in 1 .. 7))
    /\ [][step' # step => <<step, step'>> \in PhaseTable]_vars
    /\ [][(step = 3 /\ step' = 7) => \A c \in Idx(N) : ccov'[c] = 1]_vars
    /\ [][(step = 3 /\ step' = 4) => \E c \in Idx(N) : ccov'[c] # 1]_vars
    /\ [][step = 7 => step' = 7]_vars
    /\ [](n_one <= 1 /\ n_two <= 1)
    /\ [](pc = "returned" => n_one = 1 /\ n_two = 1 /\ step = 7)

\* A 3 x 3 solve has returned after calls of step_five and step_six, so that
\* every transition of the table has been taken except 3 -> 7, taken last.
C14_Witness ==
    /\ pc = "returned"
    /\ N = MaxN
    /\ n_five >= 2
    /\ cost # RowReduced(input_cost, N)

(***************************************************************************)
(* C15                                                                     *)
(***************************************************************************)
\* C15: in a run on an N x N matrix step_five is called at most N times,
\* and in a run that returns exactly N minus the number of cells step_two
\* starred; between two consecutive calls of step_three step_six is called
\* at most N times.
C15_BoundedCycles ==
    InSolver =>
        /\ n_five <= N
        /\ n_six <= N
        /\ pc = "returned" => n_five = N - stars_two

\* The solve of the 4 x 4 example is in its third and last call of
\* step_five, step_two having starred one cell, after three calls of
\* step_six since the last call of step_three.
C15_Witness ==
    /\ pc = "step_five"
    /\ N = 4
    /\ n_five = 3
    /\ stars_two = 1
    /\ n_six = 3

(***************************************************************************)
(* C16                                                                     *)
(***************************************************************************)
\* The vertices of the path step_five has built.
PathCells == {path[p] : p \in 0 .. (path_count - 1)}

\* C16: when the loop of step_five ends and the rest of step_five runs, the
\* path holds k starred and k + 1 primed vertices (primed at the even
\* positions, starred at the odd ones), all distinct cells; afterwards the
\* starred ones are unmarked, the primed ones are starred, and the mark
\* matrix holds exactly one starred cell more.
C16_StepFiveAddsOneStar ==
    [][(pc = "step_five" /\ pc' = "switch") =>
          /\ path_count % 2 = 1
          /\ Cardinality(PathCells) = path_count
          /\ \A p \in 0 .. (path_count - 1) :
                /\ indM[path[p][1]][path[p][2]] = (IF p % 2 = 0 THEN 2 ELSE 1)
                /\ indM'[path[p][1]][path[p][2]] = (IF p % 2 = 0 THEN 1 ELSE 0)
          /\ Cardinality(StarCells(indM', N')) = Cardinality(StarCells(indM, N)) + 1]_vars

\* A 3 x 3 call of step_five has ended after a path of five vertices (two
\* starred, three primed).
C16_Witness ==
    /\ pc = "switch"
    /\ step = 3
    /\ N = MaxN
    /\ n_five >= 1
    /\ path[4] # <<-1, -1>>

(***************************************************************************)
(* C17                                                                     *)
(***************************************************************************)
\* C17: in every state of a run the permutations of least total cost on
\* the working matrix are those of least total cost on the input, and every
\* step that changes the working matrix changes the total cost of all
\* permutations by the same amount.
C17_ReductionKeepsOptimum ==
    /\ [](InSolver => Optimal(cost, N) = Optimal(input_cost, N))
    /\ [][(InSolver /\ cost' # cost) =>
            \A f \in Perms(N) : \A g \in Perms(N) :
                PermCost(cost', f, N) - PermCost(cost, f, N)
                    = PermCost(cost', g, N) - PermCost(cost, g, N)]_vars

\* A 3 x 3 solve has returned after step_one and step_six changed the
\* working matrix, on an input some permutation of which is not optimal.
C17_Witness ==
    /\ pc = "returned"
    /\ N = MaxN
    /\ cost # input_cost
    /\ cost # RowReduced(input_cost, N)
    /\ Optimal(input_cost, N) # Perms(N)

(***************************************************************************)
(* C18                                                                     *)
(***************************************************************************)
\* C18: whenever step 3 is about to run, from step 2 or from step 5, all
\* covers are 0; and after step_three column c is covered exactly when it
\* holds a starred cell, and no row is covered.
C18_CoversRecomputed ==
    /\ []((pc = "switch" /\ step = 3) => (rcov = ZeroVec(N) /\ ccov = ZeroVec(N)))
    /\ [][(pc = "switch" /\ step = 3) =>
            /\ \A c \in Idx(N') :
                  (ccov'[c] = 1) <=> (\E r \in Idx(N') : indM'[r][c] = 1)
            /\ \A c \in Idx(N') : ccov'[c] \in {0, 1}
            /\ rcov' = ZeroVec(N')]_vars

\* step_three has run after a call of step_five that followed a pass of
\* step_four which covered a row and uncovered a column.
C18_Witness ==
    /\ pc = "switch"
    /\ step \in {4, 7}
    /\ N = MaxN
    /\ n_five >= 1
    /\ n_six = 0
    /\ path[2] # <<-1, -1>>
    /\ rcov = ZeroVec(N)
    /\ \E c \in Idx(N) : ccov[c] = 1

(***************************************************************************)
(* C19                                                                     *)
(***************************************************************************)
\* Greedy starring in reading order from row r on, used being the columns
\* that hold a starred cell of an earlier row: the first zero of the row
\* outside used is starred.
RECURSIVE GreedyFrom(_, _, _, _)
GreedyFrom(m, n, r, used) ==
    IF r >= n THEN {}
    ELSE LET Z == {c \in Idx(n) : m[r][c] = 0 /\ c \notin used}
         IN  IF Z = {} THEN GreedyFrom(m, n, r + 1, used)
             ELSE {<<r, SetMin(Z)>>} \cup GreedyFrom(m, n, r + 1, used \cup {SetMin(Z)})

\* C19: when step_two has run (the switch is at step 3 for the first time)
\* the starred cells are those of the greedy starring of the working
\* matrix in reading order, at most one per row and per column, and both
\* cover vectors are all 0, whatever the covers held on entry to step_two.
C19_GreedyStars ==
    (pc = "switch" /\ step = 3 /\ n_five = 0) =>
        /\ StarCells(indM, N) = GreedyFrom(cost, N, 0, {})
        /\ \A r \in Idx(N) : Cardinality({c \in Idx(N) : indM[r][c] = 1}) <= 1
        /\ \A c \in Idx(N) : Cardinality({r \in Idx(N) : indM[r][c] = 1}) <= 1
        /\ rcov = ZeroVec(N)
        /\ ccov = ZeroVec(N)

\* The part of C19 that does not depend on what the covers hold on entry:
\* with both covers all 0 on entry, step_two stars the greedy cells.
GreedyStarsZeroCovers ==
    (pc = "switch" /\ step = 2) =>
        StarCells(step_two([State EXCEPT !.rcov = ZeroVec(N), !.ccov = ZeroVec(N)]).indM, N)
            = GreedyFrom(cost, N, 0, {})

(***************************************************************************)
(* C20                                                                     *)
(***************************************************************************)
\* C20: after step_one every entry of the working matrix is >= 0, every
\* row holds a 0, and entry (r, c) is the input's entry (r, c) minus the
\* least entry of the input's row r.
C20_RowsReduced ==
    (pc = "switch" /\ step = 2) =>
        \A r \in Idx(N) :
            /\ \A c \in Idx(N) : cost[r][c] >= 0
            /\ \E c \in Idx(N) : cost[r][c] = 0
            /\ \E c0 \in Idx(N) :
                  /\ \A c \in Idx(N) : input_cost[r][c0] <= input_cost[r][c]
                  /\ \A c \in Idx(N) : cost[r][c] = input_cost[r][c] - input_cost[r][c0]

\* step_one has run on a matrix with a row whose least entry is negative
\* and a row whose least entry is positive.
C20_Witness ==
    /\ pc = "switch"
    /\ step = 2
    /\ n_one = 1
    /\ \E r \in Idx(N) : \A c \in Idx(N) : input_cost[r][c] > 0
    /\ \E r \in Idx(N) : \E c \in Idx(N) : input_cost[r][c] < 0

(***************************************************************************)
(* C21                                                                     *)
(***************************************************************************)
\* The zeros of m whose row and column are both uncovered.
UncoveredZeros(m, rc, cc, n) ==
    {z \in Idx(n) \X Idx(n) : m[z[1]][z[2]] = 0 /\ rc[z[1]] = 0 /\ cc[z[2]] = 0}

\* C21: when a pass of step_four sets step = 5, the seed (rpath_0, cpath_0)
\* is a zero of the working matrix, is primed, lay in an uncovered row and
\* an uncovered column when the pass found it, has no starred cell in its
\* row, and no uncovered zero came before it in row-major order.
C21_SeedIsFirstUncoveredZero ==
    [][(pc = "step_four" /\ step' = 5) =>
          /\ <<rpath_0', cpath_0'>> \in UncoveredZeros(cost, rcov, ccov, N)
          /\ cost'[rpath_0'][cpath_0'] = 0
          /\ indM'[rpath_0'][cpath_0'] = 2
          /\ \A c \in Idx(N) : indM'[rpath_0'][c] # 1
          /\ \A z \in UncoveredZeros(cost, rcov, ccov, N) :
                z[1] * N + z[2] >= rpath_0' * N + cpath_0']_vars

\* step_four has set step = 5 in a 3 x 3 solve after a pass that covered a
\* row, with an uncovered zero left after the seed.
C21_Witness ==
    /\ pc = "switch"
    /\ step = 5
    /\ N = MaxN
    /\ \E r \in Idx(N) : rcov[r] = 1
    /\ Cardinality(UncoveredZeros(cost, rcov, ccov, N)) >= 2

(***************************************************************************)
(* C22                                                                     *)
(***************************************************************************)
\* C22: a pass of step_four sets step = 6 only when no zero has its row and
\* its column uncovered; every call of step_six leaves such a zero; and the
\* first pass of a step_four that follows a step_six (row is still -1)
\* does not set step = 6, so it primes a cell.
C22_StepSixMakesProgress ==
    /\ [][(pc = "step_four" /\ step' = 6) =>
            UncoveredZeros(cost, rcov, ccov, N) = {}]_vars
    /\ [][(pc = "switch" /\ step = 6) =>
            UncoveredZeros(cost', rcov', ccov', N') # {}]_vars
    /\ [][(pc = "step_four" /\ row = -1 /\ n_six >= 1) =>
            /\ step' # 6
            /\ \E z \in UncoveredZeros(cost, rcov, ccov, N) :
                  indM[z[1]][z[2]] # 2 /\ indM'[z[1]][z[2]] = 2]_vars

\* A 3 x 3 solve is in the step_four that follows a call of step_six, after
\* its first pass primed a cell and covered a row.
C22_Witness ==
    /\ pc = "step_four"
    /\ N = MaxN
    /\ n_six >= 1
    /\ row # -1
    /\ \E r \in Idx(N) : \E c \in Idx(N) : indM[r][c] = 2

(***************************************************************************)
(* C23                                                                     *)
(***************************************************************************)
\* The least value of m over the cells whose row and column are both
\* uncovered (there is one whenever step_six is entered).
UncoveredMin(m, rc, cc, n) ==
    CHOOSE v \in {m[r][c] : r \in {x \in Idx(n) : rc[x] = 0},
                            c \in {y \in Idx(n) : cc[y] = 0}} :
        \A r \in Idx(n) : \A c \in Idx(n) : (rc[r] = 0 /\ cc[c] = 0) => v <= m[r][c]

\* C23 as claimed: step_six leaves the value of every cell whose row is
\* covered and whose column is covered unchanged.
C23_DoublyCoveredUnchanged ==
    [][(pc = "switch" /\ step = 6) =>
          \A r \in Idx(N) : \A c \in Idx(N) :
              (rcov[r] = 1 /\ ccov[c] = 1) => cost'[r][c] = cost[r][c]]_vars

\* C23 amended: in step_six a cell whose row is covered and whose column is
\* uncovered receives both operations and keeps its value; a cell whose
\* row is covered and whose column is covered receives the addition only
\* and grows by the minimum.
C23_CoveredRowCells ==
    [][(pc = "switch" /\ step = 6) =>
          \A r \in Idx(N) : \A c \in Idx(N) :
              /\ (rcov[r] = 1 /\ ccov[c] = 0) => cost'[r][c] = cost[r][c]
              /\ (rcov[r] = 1 /\ ccov[c] = 1) =>
                    cost'[r][c] = cost[r][c] + UncoveredMin(cost, rcov, ccov, N)]_vars

\* step_six has run in a 3 x 3 solve with a covered row that crosses a
\* covered and an uncovered column (step_six changes no cover).
C23_Witness ==
    /\ pc = "switch"
    /\ step = 4
    /\ n_six >= 1
    /\ N = MaxN
    /\ \E r \in Idx(N) : \E c \in Idx(N) : \E d \in Idx(N) :
          rcov[r] = 1 /\ ccov[c] = 1 /\ ccov[d] = 0

(***************************************************************************)
(* C24                                                                     *)
(***************************************************************************)
\* C24: with m the least value over the cells whose row and column are
\* uncovered, step_six changes cell (r, c) by +m when row r and column c
\* are covered, by -m when both are uncovered and by 0 when exactly one is
\* covered; it changes neither the covers nor the mark matrix.
C24_StepSixTable ==
    [][(pc = "switch" /\ step = 6) =>
          /\ \A r \in Idx(N) : \A c \in Idx(N) :
                cost'[r][c] - cost[r][c] =
                    (CASE rcov[r] = 1 /\ ccov[c] = 1 -> UncoveredMin(cost, rcov, ccov, N)
                       [] rcov[r] = 0 /\ ccov[c] = 0 -> 0 - UncoveredMin(cost, rcov, ccov, N)
                       [] OTHER -> 0)
          /\ rcov' = rcov
          /\ ccov' = ccov
          /\ indM' = indM]_vars

\* step_six has run in a 3 x 3 solve whose covers show all four kinds of
\* cell, and the working matrix holds a value above 1 that only an addition
\* can have produced.
C24_Witness ==
    /\ pc = "switch"
    /\ step = 4
    /\ n_six >= 1
    /\ N = MaxN
    /\ \E r \in Idx(N) : \E c \in Idx(N) : rcov[r] = 1 /\ ccov[c] = 1
    /\ \E r \in Idx(N) : \E c \in Idx(N) : rcov[r] = 0 /\ ccov[c] = 0
    /\ \E r \in Idx(N) : \E c \in Idx(N) : rcov[r] = 1 /\ ccov[c] = 0
    /\ \E r \in Idx(N) : \E c \in Idx(N) : rcov[r] = 0 /\ ccov[c] = 1
    /\ \E r \in Idx(N) : \E c \in Idx(N) : cost[r][c] > TopVal

(***************************************************************************)
(* C25                                                                     *)
(***************************************************************************)
\* C25: when step_five ends, all row covers and all column covers are 0,
\* the mark matrix holds no primed cell, and the next step is 3.
C25_StepFiveCleansUp ==
    [][(pc = "step_five" /\ pc' # "step_five") =>
          /\ pc' = "switch"
          /\ step' = 3
          /\ rcov' = ZeroVec(N')
          /\ ccov' = ZeroVec(N')
          /\ \A r \in Idx(N') : \A c \in Idx(N') : indM'[r][c] # 2]_vars

\* A 3 x 3 step_five is about to end (no starred cell in the column of the
\* last vertex) with a covered row, a covered column, and a primed cell
\* that is not on the path.
C25_Witness ==
    /\ pc = "step_five"
    /\ N = MaxN
    /\ find_star_in_col(path[path_count - 1][2], indM, N) = -1
    /\ \E r \in Idx(N) : rcov[r] = 1
    /\ \E c \in Idx(N) : ccov[c] = 1
    /\ \E r \in Idx(N) : \E c \in Idx(N) :
          indM[r][c] = 2 /\ <<r, c>> \notin PathCells

(***************************************************************************)
(* C26                                                                     *)
(***************************************************************************)
\* C26: inside step_five path_count is between 1 and 2N and every vertex
\* written so far is a cell of the matrices; no access ever falls outside
\* an object; and each call of step_five starts the path again at index 0
\* with the seed.
C26_PathWithinBuffer ==
    /\ [](pc = "step_five" =>
            /\ path_count \in 1 .. 2 * N
            /\ \A p \in 0 .. (path_count - 1) : InMatrix(path[p], N))
    /\ [](pc # "ub" /\ ~oob)
    /\ [][(pc = "switch" /\ step = 5) =>
            /\ pc' = "step_five"
            /\ path_count' = 1
            /\ path'[0] = <<rpath_0, cpath_0>>]_vars

\* The second call of step_five in a 3 x 3 solve has built a path of five
\* vertices, one short of the 2N rows of the buffer.
C26_Witness ==
    /\ pc = "step_five"
    /\ N = MaxN
    /\ n_five = 2
    /\ path_count = 2 * N - 1

(***************************************************************************)
(* C27                                                                     *)
(***************************************************************************)
\* C27: whenever step_six is entered some cell has its row and its column
\* uncovered and the least value over those cells is strictly positive, so
\* the minval find_smallest computes is that value of the working matrix
\* and not the initial DBL_MAX.
C27_MinvalIsAPositiveCell ==
    (pc = "switch" /\ step = 6) =>
        /\ \E r \in Idx(N) : \E c \in Idx(N) : rcov[r] = 0 /\ ccov[c] = 0
        /\ UncoveredMin(cost, rcov, ccov, N) > 0
        /\ find_smallest(DBL_MAX, cost, rcov, ccov, N) = UncoveredMin(cost, rcov, ccov, N)
        /\ find_smallest(DBL_MAX, cost, rcov, ccov, N) # DBL_MAX
        /\ \A r \in Idx(N) : \A c \in Idx(N) : cost[r][c] < DBL_MAX

\* step_six is entered in a 3 x 3 solve with a covered row and a covered
\* column.
C27_Witness ==
    /\ pc = "switch"
    /\ step = 6
    /\ N = MaxN
    /\ \E r \in Idx(N) : rcov[r] = 1
    /\ \E c \in Idx(N) : ccov[c] = 1

(***************************************************************************)
(* C28                                                                     *)
(***************************************************************************)
\* C28: from the end of step 2 until the return, in every state of the run,
\* every starred and every primed cell of the mark matrix is 0 in the
\* working matrix; step_six changes the value of no marked cell; and every
\* cell of the returned assignment is a zero of the final working matrix.
C28_MarksOnZeros ==
    /\ []((InSolver /\ step >= 3) =>
            \A r \in Idx(N) : \A c \in Idx(N) :
                indM[r][c] \in {1, 2} => cost[r][c] = 0)
    /\ [][(pc = "switch" /\ step = 6) =>
            \A r \in Idx(N) : \A c \in Idx(N) :
                indM[r][c] \in {1, 2} => cost'[r][c] = cost[r][c]]_vars

\* A 3 x 3 solve has returned after a step_six that ran while a cell was
\* primed, with a zero in the final working matrix that was not one after
\* step_one.
C28_Witness ==
    /\ pc = "returned"
    /\ N = MaxN
    /\ cost # RowReduced(input_cost, N)
    /\ \E r \in Idx(N) : \E c \in Idx(N) :
          indM[r][c] = 1 /\ cost[r][c] = 0 /\ RowReduced(input_cost, N)[r][c] # 0

(***************************************************************************)
(* C29                                                                     *)
(***************************************************************************)
\* C29: while the run is at step 4 or step 6 (inside step_four, or at the
\* switch before step_four or step_six) every starred cell has either its
\* column covered or its row covered, and not both; and no pass of
\* step_four primes a starred cell.
C29_StarsUnderOneLine ==
    /\ []((pc = "step_four" \/ (pc = "switch" /\ step \in {4, 6})) =>
            \A z \in StarCells(indM, N) : (rcov[z[1]] = 1) # (ccov[z[2]] = 1))
    /\ [][pc = "step_four" =>
            \A r \in Idx(N) : \A c \in Idx(N) :
                indM[r][c] = 1 => indM'[r][c] = 1]_vars

\* A 3 x 3 solve is at step 6 with two starred cells, one under a covered
\* row and one under a covered column.
C29_Witness ==
    /\ pc = "switch"
    /\ step = 6
    /\ N = MaxN
    /\ \E y \in StarCells(indM, N) : \E z \in StarCells(indM, N) :
          rcov[y[1]] = 1 /\ ccov[z[2]] = 1

(***************************************************************************)
(* C30                                                                     *)
(***************************************************************************)
\* C30: in step_five, whenever the column of the path's last vertex holds
\* a starred cell, the row of that cell holds exactly one primed cell, and
\* the vertex the pass appends after the starred one is that primed cell.
C30_UniquePrimeInStarRow ==
    /\ []((pc = "step_five"
              /\ find_star_in_col(path[path_count - 1][2], indM, N) > -1) =>
            Cardinality({c \in Idx(N) :
                indM[find_star_in_col(path[path_count - 1][2], indM, N)][c] = 2}) = 1)
    /\ [][(pc = "step_five" /\ pc' = "step_five") =>
            /\ path_count' = path_count + 2
            /\ indM[path'[path_count][1]][path'[path_count][2]] = 1
            /\ path'[path_count][2] = path[path_count - 1][2]
            /\ indM[path'[path_count + 1][1]][path'[path_count + 1][2]] = 2
            /\ path'[path_count + 1][1] = path'[path_count][1]]_vars

\* A 3 x 3 step_five has appended a starred and a primed vertex twice, in
\* a call that was not the first of the solve (so that col could hold a
\* column of an earlier path).
C30_Witness ==
    /\ pc = "step_five"
    /\ N = MaxN
    /\ n_five >= 2
    /\ path_count = 5

====
